---- MODULE Spec2Model ----
(***************************************************************************)
(* A model of three parts of OpenDrop:                                     *)
(*   - the Young-Laplace derivative functions ylderiv and dataderiv        *)
(*     (opendrop/iftcalc/younglaplace/de.py), specification SpecDE;        *)
(*   - the Parameter Estimator and the Physical Quantity Calculator, whose *)
(*     code is not among the source files and which are modelled from the  *)
(*     design text (sections 4.4, 4.6, 7), specification SpecFit;          *)
(*   - StackModel (opendrop/component/stack.py), specification Spec.       *)
(*                                                                         *)
(* Numbers.  Python floats are modelled as exact rationals <<n, d>> in     *)
(* lowest terms with d > 0, extended with the IEEE special values          *)
(* <<1, 0>> (+inf), <<-1, 0>> (-inf) and <<0, 0>> (nan).  Rounding,        *)
(* overflow and underflow of the 64-bit format are not modelled.           *)
(***************************************************************************)
EXTENDS Integers, Sequences, FiniteSets, TLC

VARIABLES
    \* ---- de.py: one caller evaluating the derivative functions ----
    de_base,    \* [elt, bond_number, x, y, phi]: the fit and the point it is at
    de_last,    \* the most recent call (CallRec), or NoCall
    de_prev,    \* an earlier call the observer retained, or NoCall
    \* ---- Parameter Estimator / Quantity Calculator (design text) ----
    fit_state,        \* Initialized, Iterating or a terminal state
    fit_cfg,          \* the optimizer configuration
    fit_iter,         \* iterations performed
    fit_params,       \* current FitParameters
    fit_residual,     \* their residual
    fit_best,         \* the parameters of least residual seen, with it
    fit_seen,         \* every residual seen so far
    fit_rises,        \* consecutive iterations whose residual rose
    fit_implausible,  \* consecutive failed steps (implausible curve, singular step)
    fit_result,       \* the FitResult returned, or NoResult
    qty_result,       \* the Physical Quantity Calculator's outcome
    \* ---- StackModel ----
    _key_to_child, _visible_child_key, events, raised, returned, op

de_vars == <<de_base, de_last, de_prev>>
fit_vars == <<fit_state, fit_cfg, fit_iter, fit_params, fit_residual, fit_best, fit_seen,
              fit_rises, fit_implausible, fit_result, qty_result>>
stack_vars == <<_key_to_child, _visible_child_key, events, raised, returned, op>>
vars == <<de_vars, fit_vars, stack_vars>>

(***************************************************************************)
(* Extended rational arithmetic (the float operators used by de.py).       *)
(***************************************************************************)
Abs(n) == IF n < 0 THEN -n ELSE n

Sign(n) == IF n < 0 THEN -1 ELSE IF n > 0 THEN 1 ELSE 0

RECURSIVE GCD(_, _)
GCD(a, b) == IF b = 0 THEN a ELSE GCD(b, a % b)

\* n/d in canonical form; d = 0 gives the special values.
Norm(n, d) ==
    IF d = 0 THEN <<Sign(n), 0>>
    ELSE LET g == GCD(Abs(n), Abs(d))
             s == Sign(d)
         IN  <<(s * n) \div g, Abs(d) \div g>>

R(n, d) == Norm(n, d)

IsFinite(a) == a[2] # 0
IsNaN(a) == a = <<0, 0>>
IsZero(a) == a[2] # 0 /\ a[1] = 0

RNeg(a) == <<-a[1], a[2]>>

RAdd(a, b) ==
    IF a[2] = 0 /\ b[2] = 0
    THEN (IF a = b THEN a ELSE <<0, 0>>)      \* inf + inf, inf - inf, nan
    ELSE Norm(a[1] * b[2] + b[1] * a[2], a[2] * b[2])

RSub(a, b) == RAdd(a, RNeg(b))

RMul(a, b) == Norm(a[1] * b[1], a[2] * b[2])

\* a / b under IEEE rules (numpy.float64 operands): x/0 is +-inf, 0/0 nan.
RDivIEEE(a, b) == Norm(a[1] * b[2], a[2] * b[1])

RLe(a, b) == a[1] * b[2] <= b[1] * a[2]

\* The element type of the state vector decides what a zero divisor does:
\* Python floats raise ZeroDivisionError, numpy.float64 yields inf or nan.
EltTypes == {"float", "float64"}

DivRaises(elt, b) == elt = "float" /\ IsZero(b)

(***************************************************************************)
(* math.sin, math.cos, math.pi.  phi is an index into a table of angles    *)
(* whose sine and cosine are rational (multiples of 90 degrees and the     *)
(* angles of the 3-4-5 triangle); pi is the rational 22/7.                 *)
(***************************************************************************)
CosTab == <<5, 4, 3, 0, -3, -4, -5, -4, -3, 0, 3, 4>>
SinTab == <<0, 3, 4, 5, 4, 3, 0, -3, -4, -5, -4, -3>>

cos(phi) == Norm(CosTab[phi + 1], 5)
sin(phi) == Norm(SinTab[phi + 1], 5)
pi == R(22, 7)

Two == R(2, 1)

(***************************************************************************)
(* de.py                                                                   *)
(***************************************************************************)
Return(v) == [exc |-> "none", val |-> v]
Raise(e) == [exc |-> e, val |-> <<>>]

\* A mutant of ylderiv: phi' also depends on the arc length t.
ylderiv_uses_t(x_vec, t, bond_number) ==
    LET v == x_vec.val
        y_s == sin(v[3])
    IN  IF DivRaises(x_vec.elt, v[1]) THEN Raise("ZeroDivisionError")
        ELSE Return(<<cos(v[3]), y_s,
                      RAdd(RSub(RSub(Two, RMul(bond_number, v[2])), RDivIEEE(y_s, v[1])), R(t, 1)),
                      RNeg(RMul(y_s, v[6])), RMul(cos(v[3]), v[6]),
                      RSub(RSub(RSub(RDivIEEE(RMul(y_s, v[4]), RMul(v[1], v[1])),
                                     RDivIEEE(RMul(cos(v[3]), v[6]), v[1])), v[2]),
                           RMul(bond_number, v[5]))>>)

\* A mutant of ylderiv: the sign of the sin(phi)*x_Bond/x^2 term is flipped.
ylderiv_sign_slip(x_vec, t, bond_number) ==
    LET v == x_vec.val
        y_s == sin(v[3])
    IN  IF DivRaises(x_vec.elt, v[1]) THEN Raise("ZeroDivisionError")
        ELSE Return(<<cos(v[3]), y_s,
                      RSub(RSub(Two, RMul(bond_number, v[2])), RDivIEEE(y_s, v[1])),
                      RNeg(RMul(y_s, v[6])), RMul(cos(v[3]), v[6]),
                      RSub(RSub(RSub(RNeg(RDivIEEE(RMul(y_s, v[4]), RMul(v[1], v[1]))),
                                     RDivIEEE(RMul(cos(v[3]), v[6]), v[1])), v[2]),
                           RMul(bond_number, v[5]))>>)

ylderiv(x_vec, t, bond_number) ==
    LET elt == x_vec.elt
        x == x_vec.val[1]
        y == x_vec.val[2]
        phi == x_vec.val[3]
        x_Bond == x_vec.val[4]
        y_Bond == x_vec.val[5]
        phi_Bond == x_vec.val[6]
        x_s == cos(phi)
        y_s == sin(phi)
    IN  IF DivRaises(elt, x) THEN Raise("ZeroDivisionError")
        ELSE LET phi_s == RSub(RSub(Two, RMul(bond_number, y)), RDivIEEE(y_s, x))
                 x_Bond_s == RNeg(RMul(y_s, phi_Bond))
                 y_Bond_s == RMul(x_s, phi_Bond)
                 xx == RMul(x, x)
             IN  IF DivRaises(elt, xx) THEN Raise("ZeroDivisionError")
                 ELSE LET phi_Bond_s ==
                              RSub(RSub(RSub(RDivIEEE(RMul(y_s, x_Bond), xx),
                                             RDivIEEE(RMul(x_s, phi_Bond), x)),
                                        y),
                                   RMul(bond_number, y_Bond))
                      IN  Return(<<x_s, y_s, phi_s, x_Bond_s, y_Bond_s, phi_Bond_s>>)

\* A mutant of dataderiv: phi' adds sin(phi)/x instead of subtracting it.
dataderiv_phi_slip(x_vec, t, bond_number) ==
    LET v == x_vec.val
        y_s == sin(v[3])
    IN  IF DivRaises(x_vec.elt, v[1]) THEN Raise("ZeroDivisionError")
        ELSE Return(<<cos(v[3]), y_s,
                      RAdd(RSub(Two, RMul(bond_number, v[2])), RDivIEEE(sin(v[3]), v[1])),
                      RMul(RMul(pi, RMul(v[1], v[1])), y_s),
                      RMul(RMul(Two, pi), v[1])>>)

\* A mutant of dataderiv: the surface rate grows with the accumulated surface
\* instead of with x.
dataderiv_sur_slip(x_vec, t, bond_number) ==
    LET v == x_vec.val
        y_s == sin(v[3])
    IN  IF DivRaises(x_vec.elt, v[1]) THEN Raise("ZeroDivisionError")
        ELSE Return(<<cos(v[3]), y_s,
                      RSub(RSub(Two, RMul(bond_number, v[2])), RDivIEEE(sin(v[3]), v[1])),
                      RMul(RMul(pi, RMul(v[1], v[1])), y_s),
                      RMul(RMul(Two, pi), v[5])>>)

\* A mutant of dataderiv: the operands of sin(phi)/x are swapped, so the
\* singular states are those with sin(phi) = 0 instead of x = 0.
dataderiv_swapped_div(x_vec, t, bond_number) ==
    LET v == x_vec.val
        y_s == sin(v[3])
    IN  IF DivRaises(x_vec.elt, y_s) THEN Raise("ZeroDivisionError")
        ELSE Return(<<cos(v[3]), y_s,
                      RSub(RSub(Two, RMul(bond_number, v[2])), RDivIEEE(v[1], y_s)),
                      RMul(RMul(pi, RMul(v[1], v[1])), y_s),
                      RMul(RMul(Two, pi), v[1])>>)

dataderiv(x_vec, t, bond_number) ==
    LET elt == x_vec.elt
        x == x_vec.val[1]
        y == x_vec.val[2]
        phi == x_vec.val[3]
        vol == x_vec.val[4]
        sur == x_vec.val[5]
        x_s == cos(phi)
        y_s == sin(phi)
    IN  IF DivRaises(elt, x) THEN Raise("ZeroDivisionError")
        ELSE LET phi_s == RSub(RSub(Two, RMul(bond_number, y)), RDivIEEE(sin(phi), x))
                 vol_s == RMul(RMul(pi, RMul(x, x)), y_s)
                 sur_s == RMul(RMul(Two, pi), x)
             IN  Return(<<x_s, y_s, phi_s, vol_s, sur_s>>)

(***************************************************************************)
(* The caller of de.py: it stands at a profile point (x, y, phi), holds    *)
(* its state in a list of Python floats or in a numpy array, and           *)
(* evaluates either form with sensitivities / accumulators, an arc length  *)
(* t and a Bond number of its choice.                                      *)
(***************************************************************************)
MaxT == 1

XS == {R(-1, 1), R(0, 1), R(1, 2), R(2, 1)}
YS == {R(-1, 1), R(0, 1), R(3, 2)}
Phis == {0, 1, 3, 4, 10}
SensS == {<<R(0, 1), R(0, 1), R(0, 1)>>,
          <<R(1, 1), R(-1, 1), R(2, 1)>>,
          <<R(-1, 2), R(2, 1), R(1, 1)>>}
AccS == {<<R(0, 1), R(0, 1)>>, <<R(1, 1), R(3, 1)>>}
BondNumbers == {R(-1, 2), R(0, 1), R(2, 1)}
Ts == 0..MaxT

\* A fit in progress: the container type of its state vectors, its Bond
\* number, and the profile point (x, y, phi) it has reached.
Bases == [elt : EltTypes, bond_number : BondNumbers, x : XS, y : YS, phi : Phis]

NoCall == [fn |-> "none"]

XVec(ext) == [elt |-> de_base.elt, val |-> <<de_base.x, de_base.y, de_base.phi>> \o ext]

\* One call: the arguments as passed, the outcome, and the argument list as
\* the caller finds it afterwards (neither function assigns to x_vec).
CallRec(fn, x_vec, t, bond_number, ret) ==
    [fn |-> fn, x_vec |-> x_vec, t |-> t, bond_number |-> bond_number,
     ret |-> ret, x_vec_after |-> x_vec]

DE_Init ==
    /\ de_base \in Bases
    /\ de_last = NoCall
    /\ de_prev = NoCall

DE_CallYlderiv ==
    /\ \E ext \in SensS, t \in Ts :
         de_last' = CallRec("ylderiv", XVec(ext), t, de_base.bond_number,
                            ylderiv(XVec(ext), t, de_base.bond_number))
    /\ UNCHANGED <<de_base, de_prev, fit_vars, stack_vars>>

DE_CallDataderiv ==
    /\ \E ext \in AccS, t \in Ts :
         de_last' = CallRec("dataderiv", XVec(ext), t, de_base.bond_number,
                            dataderiv(XVec(ext), t, de_base.bond_number))
    /\ UNCHANGED <<de_base, de_prev, fit_vars, stack_vars>>

\* The observer keeps the latest call for later comparison.
DE_Retain ==
    /\ de_last # NoCall
    /\ de_prev' = de_last
    /\ UNCHANGED <<de_base, de_last, fit_vars, stack_vars>>

\* The integration moves on to another profile point; the observer starts
\* afresh.
DE_Step ==
    /\ de_last # NoCall
    /\ \/ \E x \in XS \ {de_base.x} : de_base' = [de_base EXCEPT !.x = x]
       \/ \E y \in YS \ {de_base.y} : de_base' = [de_base EXCEPT !.y = y]
       \/ \E phi \in Phis \ {de_base.phi} : de_base' = [de_base EXCEPT !.phi = phi]
    /\ de_last' = NoCall
    /\ de_prev' = NoCall
    /\ UNCHANGED <<fit_vars, stack_vars>>

DE_Next == DE_CallYlderiv \/ DE_CallDataderiv \/ DE_Retain \/ DE_Step

(***************************************************************************)
(* StackModel (component/stack.py).  Keys are 1..NumKeys and children      *)
(* 1..NumChildren (distinct objects); None is 0.  _key_to_child is the     *)
(* insertion-ordered dict, a sequence of <<key, child>> pairs.  A method   *)
(* is an operator from the object's state                                  *)
(*   [m: the dict, vis: _visible_child_key, ev: events fired, exc, ret]    *)
(* to the state it leaves.  Event handlers are taken not to call back      *)
(* into the model (StackPresenter's only touch the view).                  *)
(***************************************************************************)
NumKeys == 3
NumChildren == 3

None == 0
Keys == 1..NumKeys
Children == 1..NumChildren

HasKey(m, key) == \E i \in 1..Len(m) : m[i][1] = key
HasChild(m, child) == \E i \in 1..Len(m) : m[i][2] = child
ChildOf(m, key) == m[CHOOSE i \in 1..Len(m) : m[i][1] = key][2]
Values(m) == [i \in 1..Len(m) |-> m[i][2]]
Without(m, i) == SubSeq(m, 1, i - 1) \o SubSeq(m, i + 1, Len(m))

\* Event.fire: the event is logged with the object's state at that moment.
Fire(st, name, key, child) ==
    [st EXCEPT !.ev = Append(@, [name |-> name, key |-> key, child |-> child,
                                  m |-> st.m, vis |-> st.vis])]

_create_exc_unknown_key(key) == "ValueError"

\* A mutant of _set_visible_child_key: the key is stored without testing that
\* it identifies a child.
_set_visible_child_key_unchecked(st, new_key) == [st EXCEPT !.vis = new_key]

\* visible_child_key = new_key (bn_visible_child_key.set -> the setter).
_set_visible_child_key(st, new_key) ==
    IF new_key # None /\ ~HasKey(st.m, new_key)
    THEN [st EXCEPT !.exc = _create_exc_unknown_key(new_key)]
    ELSE [st EXCEPT !.vis = new_key]

\* A mutant of add_child: the test that the child already belongs to the
\* stack is missing.
add_child_no_child_check(st, key, child) ==
    IF key = None THEN [st EXCEPT !.exc = "ValueError"]
    ELSE IF HasKey(st.m, key) THEN [st EXCEPT !.exc = "ValueError"]
    ELSE Fire([st EXCEPT !.m = Append(@, <<key, child>>)], "on_child_added", key, child)

add_child(st, key, child) ==
    IF key = None THEN [st EXCEPT !.exc = "ValueError"]
    ELSE IF HasKey(st.m, key) THEN [st EXCEPT !.exc = "ValueError"]
    ELSE IF HasChild(st.m, child) THEN [st EXCEPT !.exc = "ValueError"]
    ELSE Fire([st EXCEPT !.m = Append(@, <<key, child>>)], "on_child_added", key, child)

\* A mutant of remove_child: the visible key is not reset when its child is
\* removed.
remove_child_keeps_visible(st, child) ==
    IF ~HasChild(st.m, child) THEN [st EXCEPT !.exc = "ValueError"]
    ELSE LET i == CHOOSE j \in 1..Len(st.m) : st.m[j][2] = child
         IN  Fire([st EXCEPT !.m = Without(@, i)], "on_child_removed", st.m[i][1], child)

\* A mutant of remove_child: on_child_removed fires as soon as the child is
\* found, before the visible key is reset and the entry deleted.
remove_child_fires_first(st, child) ==
    IF ~HasChild(st.m, child) THEN [st EXCEPT !.exc = "ValueError"]
    ELSE LET i == CHOOSE j \in 1..Len(st.m) : st.m[j][2] = child
             k == st.m[i][1]
             s1 == Fire(st, "on_child_removed", k, child)
             s2 == IF s1.vis = k THEN _set_visible_child_key(s1, None) ELSE s1
         IN  [s2 EXCEPT !.m = Without(@, i)]

remove_child(st, child) ==
    IF ~HasChild(st.m, child) THEN [st EXCEPT !.exc = "ValueError"]
    ELSE LET i == CHOOSE j \in 1..Len(st.m) :
                      /\ st.m[j][2] = child
                      /\ \A h \in 1..(j - 1) : st.m[h][2] # child
             k == st.m[i][1]
             s1 == IF st.vis = k THEN _set_visible_child_key(st, None) ELSE st
             s2 == [s1 EXCEPT !.m = Without(@, i)]
         IN  Fire(s2, "on_child_removed", k, child)

\* The loop of clear over the snapshot list(self._key_to_child.values());
\* an exception from remove_child ends it.
RECURSIVE clear_loop(_, _)
clear_loop(st, todo) ==
    IF todo = <<>> \/ st.exc # "none" THEN st
    ELSE clear_loop(remove_child(st, Head(todo)), Tail(todo))

\* A mutant of clear: the mapping is reset without removing the children one
\* by one (as SidebarWizardPositionView.clear does), so no event is fired.
clear_silent(st) == [st EXCEPT !.m = <<>>, !.vis = None]

clear(st) == clear_loop(st, Values(st.m))

\* A mutant of get_child_from_key: dict.get instead of dict[key], so an
\* unknown key yields None instead of ValueError.
get_child_from_key_lenient(st, key) ==
    IF key # None /\ HasKey(st.m, key)
    THEN [st EXCEPT !.ret = ChildOf(st.m, key)]
    ELSE [st EXCEPT !.ret = None]

get_child_from_key(st, key) ==
    IF key = None THEN [st EXCEPT !.ret = None]
    ELSE IF HasKey(st.m, key) THEN [st EXCEPT !.ret = ChildOf(st.m, key)]
    ELSE [st EXCEPT !.exc = _create_exc_unknown_key(key)]

\* ---- the object and its callers ----
Entry == [m |-> _key_to_child, vis |-> _visible_child_key, ev |-> <<>>,
          exc |-> "none", ret |-> None]

Leave(st, name, key, child) ==
    /\ _key_to_child' = st.m
    /\ _visible_child_key' = st.vis
    /\ events' = st.ev
    /\ raised' = st.exc
    /\ returned' = st.ret
    /\ op' = [name |-> name, key |-> key, child |-> child,
              m |-> _key_to_child, vis |-> _visible_child_key]

Stack_Init ==
    /\ _key_to_child = <<>>
    /\ _visible_child_key = None
    /\ events = <<>>
    /\ raised = "none"
    /\ returned = None
    /\ op = [name |-> "__init__", key |-> None, child |-> None, m |-> <<>>, vis |-> None]

AddChild ==
    /\ \E key \in Keys \cup {None}, child \in Children :
         Leave(add_child(Entry, key, child), "add_child", key, child)
    /\ UNCHANGED <<de_vars, fit_vars>>

RemoveChild ==
    /\ \E child \in Children :
         Leave(remove_child(Entry, child), "remove_child", None, child)
    /\ UNCHANGED <<de_vars, fit_vars>>

Clear ==
    /\ Leave(clear(Entry), "clear", None, None)
    /\ UNCHANGED <<de_vars, fit_vars>>

GetChildFromKey ==
    /\ \E key \in Keys \cup {None} :
         Leave(get_child_from_key(Entry, key), "get_child_from_key", key, None)
    /\ UNCHANGED <<de_vars, fit_vars>>

SetVisibleChildKey ==
    /\ \E new_key \in Keys \cup {None} :
         Leave(_set_visible_child_key(Entry, new_key), "visible_child_key", new_key, None)
    /\ UNCHANGED <<de_vars, fit_vars>>

Stack_Next == AddChild \/ RemoveChild \/ Clear \/ GetChildFromKey \/ SetVisibleChildKey

(***************************************************************************)
(* Parameter Estimator (design text 4.4, 5, 6, 7) and Physical Quantity    *)
(* Calculator (4.6, 7).  Their code is not among the source files; the     *)
(* definitions below follow the design text.  One iteration is one atomic  *)
(* step whose outcome (the new parameters and residual, an implausible     *)
(* curve, a singular step retried with damping) is chosen freely.          *)
(* Residuals are integers 0..MaxResidual.  Cooperative cancellation (5)    *)
(* has no state in the machine of 4.4 and is not modelled.                 *)
(***************************************************************************)
MaxIterations == 3
MaxResidual == 3
MaxWindow == 2
RelTolDen == 2

ApexRadii == {R(1, 1), R(3, 2)}
FitParameters == [bond_number : BondNumbers, apex_radius : ApexRadii]
Residuals == 0..MaxResidual
Terminal == {"Converged", "MaxIterationsExceeded", "Diverged"}
StepOutcomes == {"ok", "implausible", "singular"}

\* {maxIterations, residualTolerance} of section 6, and the "configured
\* number of consecutive iterations" of 4.4.
Configs == [maxIterations : 1..MaxIterations, residualTolerance : 0..1,
            divergeAfter : 1..MaxWindow]

NoResult == [present |-> FALSE]

FitResult(parameters, residual, converged, iterations) ==
    [present |-> TRUE, parameters |-> parameters, residual |-> residual,
     converged |-> converged, iterations |-> iterations]

\* Converged: the improvement is below the relative tolerance 1/RelTolDen, or
\* the residual is below the absolute tolerance.
IsConverged(cfg, old, new) ==
    \/ new < cfg.residualTolerance
    \/ (new <= old /\ (old - new) * RelTolDen < old)

\* A mutant of FitOutcome: a run that ran out of iterations or diverged is
\* reported like a converged one.
FitOutcome_always_converged(state, best, current, iterations) ==
    FitResult(best.parameters, best.residual, TRUE, iterations)

\* The FitResult returned on entering terminal state `state`.
FitOutcome(state, best, current, iterations) ==
    IF state = "Converged"
    THEN FitResult(current.parameters, current.residual, TRUE, iterations)
    ELSE FitResult(best.parameters, best.residual, FALSE, iterations)

\* A mutant of NextFitState: the iteration bound is never consulted.
NextFitState_unbounded(cfg, converged, rises, failures, iterations) ==
    IF converged THEN "Converged"
    ELSE IF rises >= cfg.divergeAfter \/ failures >= cfg.divergeAfter THEN "Diverged"
    ELSE "Iterating"

\* The state after an iteration.
NextFitState(cfg, converged, rises, failures, iterations) ==
    IF converged THEN "Converged"
    ELSE IF rises >= cfg.divergeAfter \/ failures >= cfg.divergeAfter THEN "Diverged"
    ELSE IF iterations >= cfg.maxIterations THEN "MaxIterationsExceeded"
    ELSE "Iterating"

\* A mutant of interfacialTension: the division is carried out whatever the
\* Bond number.
interfacialTension_unchecked(drho_g, apex_radius, scale, bond_number) ==
    [error |-> "none",
     value |-> RDivIEEE(RMul(drho_g, RMul(RMul(apex_radius, scale), RMul(apex_radius, scale))),
                        bond_number)]

\* interfacialTension = drho * g * apexRadius^2 / bondNumber, the physical
\* apex radius being apex_radius * scale.
interfacialTension(drho_g, apex_radius, scale, bond_number) ==
    IF IsZero(bond_number)
    THEN [error |-> "DegenerateBondNumber", value |-> <<0, 0>>]
    ELSE [error |-> "none",
          value |-> RDivIEEE(RMul(drho_g, RMul(RMul(apex_radius, scale), RMul(apex_radius, scale))),
                             bond_number)]

Fit_Init ==
    /\ fit_state = "Initialized"
    /\ fit_cfg \in Configs
    /\ fit_params \in FitParameters          \* the initial guess
    /\ fit_residual \in Residuals \ {0}      \* and its residual
    /\ fit_best = [parameters |-> fit_params, residual |-> fit_residual]
    /\ fit_seen = {fit_residual}
    /\ fit_iter = 0
    /\ fit_rises = 0
    /\ fit_implausible = 0
    /\ fit_result = NoResult
    /\ qty_result = [kind |-> "none"]

FitStart ==
    /\ fit_state = "Initialized"
    /\ fit_state' = "Iterating"
    /\ UNCHANGED <<fit_cfg, fit_iter, fit_params, fit_residual, fit_best, fit_seen,
                   fit_rises, fit_implausible, fit_result, qty_result>>
    /\ UNCHANGED <<de_vars, stack_vars>>

FitIterate ==
    /\ fit_state = "Iterating"
    /\ fit_iter <= MaxIterations             \* the model's cap on the counter
    /\ \E outcome \in StepOutcomes, p \in FitParameters, r \in Residuals :
         LET ok == outcome = "ok"
             newParams == IF ok THEN p ELSE fit_params
             newRes == IF ok THEN r ELSE fit_residual
             rises == IF ok /\ r > fit_residual THEN fit_rises + 1
                      ELSE IF ok THEN 0 ELSE fit_rises
             failures == IF ok THEN 0 ELSE fit_implausible + 1
             best == IF ok /\ r < fit_best.residual
                     THEN [parameters |-> p, residual |-> r] ELSE fit_best
             conv == ok /\ IsConverged(fit_cfg, fit_residual, r)
             next == NextFitState(fit_cfg, conv, rises, failures, fit_iter + 1)
         IN  /\ (~ok => (p = fit_params /\ r = fit_residual))
             /\ fit_iter' = fit_iter + 1
             /\ fit_params' = newParams
             /\ fit_residual' = newRes
             /\ fit_rises' = rises
             /\ fit_implausible' = failures
             /\ fit_best' = best
             /\ fit_seen' = fit_seen \cup {newRes}
             /\ fit_state' = next
             /\ fit_result' = IF next \in Terminal
                              THEN FitOutcome(next, best,
                                              [parameters |-> newParams, residual |-> newRes],
                                              fit_iter + 1)
                              ELSE fit_result
    /\ UNCHANGED <<fit_cfg, qty_result>>
    /\ UNCHANGED <<de_vars, stack_vars>>

\* The Physical Quantity Calculator applied to the fit's result.
ComputeQuantities ==
    /\ fit_result.present
    /\ qty_result.kind = "none"
    /\ \E scale \in {R(1, 2), R(1, 1)}, drho_g \in {R(1, 1), R(3, 1)} :
         LET t == interfacialTension(drho_g, fit_result.parameters.apex_radius, scale,
                                     fit_result.parameters.bond_number)
         IN  qty_result' = [kind |-> IF t.error = "none" THEN "quantities" ELSE "error",
                            error |-> t.error, interfacial_tension |-> t.value,
                            scale |-> scale, drho_g |-> drho_g]
    /\ UNCHANGED <<fit_state, fit_cfg, fit_iter, fit_params, fit_residual, fit_best, fit_seen,
                   fit_rises, fit_implausible, fit_result>>
    /\ UNCHANGED <<de_vars, stack_vars>>

Fit_Next == FitStart \/ FitIterate \/ ComputeQuantities

(***************************************************************************)
(* Specifications.  Each runs one part; the other parts stay idle.         *)
(***************************************************************************)
DE_Idle ==
    /\ de_base = [elt |-> "float", bond_number |-> R(2, 1), x |-> R(2, 1), y |-> R(0, 1), phi |-> 0]
    /\ de_last = NoCall
    /\ de_prev = NoCall

Fit_Idle ==
    /\ fit_state = "Initialized"
    /\ fit_cfg = [maxIterations |-> 1, residualTolerance |-> 0, divergeAfter |-> 1]
    /\ fit_params = [bond_number |-> R(2, 1), apex_radius |-> R(1, 1)]
    /\ fit_residual = 1
    /\ fit_best = [parameters |-> fit_params, residual |-> fit_residual]
    /\ fit_seen = {fit_residual}
    /\ fit_iter = 0
    /\ fit_rises = 0
    /\ fit_implausible = 0
    /\ fit_result = NoResult
    /\ qty_result = [kind |-> "none"]

Init == DE_Idle /\ Fit_Idle /\ Stack_Init
Next == Stack_Next
Spec == Init /\ [][Next]_vars

InitDE == DE_Init /\ Fit_Idle /\ Stack_Init
NextDE == DE_Next
SpecDE == InitDE /\ [][NextDE]_vars

InitFit == DE_Idle /\ Fit_Init /\ Stack_Init
NextFit == Fit_Next
\* The estimator loop is synchronous: once called it keeps running.
SpecFit == InitFit /\ [][NextFit]_vars /\ WF_vars(FitStart) /\ WF_vars(FitIterate)

(***************************************************************************)
(* Claims about de.py (checked under SpecDE).                              *)
(***************************************************************************)
Called == de_last.fn # "none"
ArgX == de_last.x_vec.val[1]
ArgY == de_last.x_vec.val[2]
ArgPhi == de_last.x_vec.val[3]
ArgElt == de_last.x_vec.elt
ArgBond == de_last.bond_number
Returned == de_last.ret.exc = "none"
AllFinite(v) == \A i \in 1..Len(v) : IsFinite(v[i])
Zero == R(0, 1)

\* The shape equations as the design text states them.
ShapeRates(x, y, phi, bo) ==
    <<cos(phi), sin(phi), RSub(RSub(Two, RMul(bo, y)), RDivIEEE(sin(phi), x))>>

\* C1: for every state and Bond number with x # 0, ylderiv and dataderiv
\* both return x' = cos(phi), y' = sin(phi), phi' = 2 - Bo*y - sin(phi)/x as
\* their first three components, so a ylderiv call and a dataderiv call at
\* the same point and Bond number agree on them.
C1_SharedShapeEquations ==
    (Called /\ ~IsZero(ArgX)) =>
        /\ Returned
        /\ SubSeq(de_last.ret.val, 1, 3) = ShapeRates(ArgX, ArgY, ArgPhi, ArgBond)
        /\ (de_prev.fn # "none" /\ de_prev.fn # de_last.fn) =>
               SubSeq(de_prev.ret.val, 1, 3) = SubSeq(de_last.ret.val, 1, 3)

C1_Witness ==
    /\ de_last.fn = "ylderiv" /\ de_prev.fn = "dataderiv"
    /\ ~IsZero(ArgX) /\ ~IsZero(ArgY) /\ ~IsZero(ArgBond) /\ ~IsZero(sin(ArgPhi))
    /\ Returned
    /\ de_last.ret.val[3] # Two

SensRates(x, y, phi, x_Bond, y_Bond, phi_Bond, bo) ==
    <<RNeg(RMul(sin(phi), phi_Bond)),
      RMul(cos(phi), phi_Bond),
      RAdd(RSub(RSub(RNeg(y), RMul(bo, y_Bond)),
                RDivIEEE(RMul(cos(phi), phi_Bond), x)),
           RDivIEEE(RMul(sin(phi), x_Bond), RMul(x, x)))>>

ChainRule ==
    /\ Returned
    /\ SubSeq(de_last.ret.val, 4, 6) =
           SensRates(ArgX, ArgY, ArgPhi, de_last.x_vec.val[4], de_last.x_vec.val[5],
                     de_last.x_vec.val[6], ArgBond)
    /\ (SubSeq(de_last.x_vec.val, 4, 6) = <<Zero, Zero, Zero>>) =>
           SubSeq(de_last.ret.val, 4, 6) = <<Zero, Zero, RNeg(ArgY)>>

\* C4 as stated: for every state, the last three components ylderiv returns
\* are x_Bond' = -sin(phi)*phi_Bond, y_Bond' = cos(phi)*phi_Bond,
\* phi_Bond' = -y - Bo*y_Bond - cos(phi)*phi_Bond/x + sin(phi)*x_Bond/x^2,
\* which is (0, 0, -y) when the sensitivities are zero.
C4_ChainRuleEverywhere == (de_last.fn = "ylderiv") => ChainRule

\* C4 as amended: the same, for every state with x # 0.
C4_ChainRule == (de_last.fn = "ylderiv" /\ ~IsZero(ArgX)) => ChainRule

C4_Witness ==
    /\ de_last.fn = "ylderiv" /\ Returned
    /\ ~IsZero(ArgX) /\ ~IsZero(ArgBond) /\ ~IsZero(sin(ArgPhi)) /\ ~IsZero(cos(ArgPhi))
    /\ \A i \in 4..6 : ~IsZero(de_last.x_vec.val[i]) /\ ~IsZero(de_last.ret.val[i])

VolSurRates ==
    /\ Returned
    /\ de_last.ret.val[4] = RMul(RMul(pi, RMul(ArgX, ArgX)), sin(ArgPhi))
    /\ de_last.ret.val[5] = RMul(RMul(Two, pi), ArgX)
    /\ RLe(Zero, ArgX) => RLe(Zero, de_last.ret.val[5])
    /\ (de_prev.fn = "dataderiv") =>
           (de_prev.ret.exc = "none"
              /\ SubSeq(de_prev.ret.val, 4, 5) = SubSeq(de_last.ret.val, 4, 5))

\* C5 as stated: for every state dataderiv returns vol' = pi*x^2*sin(phi) and
\* sur' = 2*pi*x, whatever the accumulated vol and sur and the Bond number,
\* and sur' >= 0 whenever x >= 0.
C5_VolSurEverywhere == (de_last.fn = "dataderiv") => VolSurRates

\* C5 as amended: the same, for every state on which dataderiv returns, that
\* is every state except x = 0 held as Python floats, where it raises
\* ZeroDivisionError before the two rates are computed.
C5_VolSur ==
    (de_last.fn = "dataderiv") =>
        IF IsZero(ArgX) /\ ArgElt = "float"
        THEN de_last.ret = Raise("ZeroDivisionError")
        ELSE VolSurRates

C5_Witness ==
    /\ de_last.fn = "dataderiv" /\ de_prev.fn = "dataderiv" /\ Returned
    /\ de_prev.x_vec # de_last.x_vec
    /\ ~IsZero(ArgBond)
    /\ RLe(Zero, ArgX)
    /\ ~IsZero(de_last.ret.val[4]) /\ ~IsZero(de_last.ret.val[5])
    /\ ~RLe(Zero, de_last.ret.val[4])

(***************************************************************************)
(* Claims about the Parameter Estimator and the Physical Quantity          *)
(* Calculator (checked under SpecFit).                                     *)
(***************************************************************************)
FitTransitions ==
    /\ (fit_state = "Initialized") => (fit_state' \in {"Initialized", "Iterating"})
    /\ (fit_state = "Iterating") => (fit_state' \in {"Iterating"} \cup Terminal)
    /\ (fit_state \in Terminal) => (fit_state' = fit_state /\ fit_iter' = fit_iter)

MinOf(S) == CHOOSE m \in S : \A r \in S : m <= r

\* C7: a result says converged = TRUE only when the run ended in Converged; a
\* run that ends in MaxIterationsExceeded or Diverged returns a result with
\* converged = FALSE and the parameters of least residual seen; every
\* terminal state has its result (nothing is raised instead).
C7_ConvergedFlag ==
    /\ (fit_state \in Terminal) <=> fit_result.present
    /\ fit_result.present =>
         /\ fit_result.converged <=> (fit_state = "Converged")
         /\ fit_result.iterations = fit_iter
         /\ (fit_state # "Converged") =>
              /\ fit_result.parameters = fit_best.parameters
              /\ fit_result.residual = fit_best.residual
              /\ fit_result.residual = MinOf(fit_seen)

C7_Witness ==
    /\ fit_state = "Diverged"
    /\ fit_result.present /\ ~fit_result.converged
    /\ fit_result.parameters # fit_params
    /\ fit_result.residual < fit_residual

\* C8: with bondNumber = 0 the calculator reports the error
\* DegenerateBondNumber and no tension value; otherwise it returns the finite
\* tension drho*g*(apex_radius*scale)^2 / bondNumber.
C8_DegenerateBondNumber ==
    (qty_result.kind # "none") =>
        LET p == fit_result.parameters
            r == RMul(p.apex_radius, qty_result.scale)
        IN  IF IsZero(p.bond_number)
            THEN /\ qty_result.kind = "error"
                 /\ qty_result.error = "DegenerateBondNumber"
            ELSE /\ qty_result.kind = "quantities"
                 /\ qty_result.error = "none"
                 /\ IsFinite(qty_result.interfacial_tension)
                 /\ RMul(qty_result.interfacial_tension, p.bond_number) =
                        RMul(qty_result.drho_g, RMul(r, r))

C8_Witness ==
    /\ qty_result.kind = "error"
    /\ qty_result.error = "DegenerateBondNumber"
    /\ IsZero(fit_result.parameters.bond_number)

(***************************************************************************)
(* Claims about StackModel (checked under Spec).  op holds the last call:  *)
(* its name and arguments, and the dict and visible key it found.          *)
(***************************************************************************)
RemovedEvents(key, child) ==
    {j \in 1..Len(events) :
        /\ events[j].name = "on_child_removed"
        /\ events[j].key = key
        /\ events[j].child = child}

\* C9: clear() removes every child and fires on_child_removed exactly once
\* for each child that was in the stack when it was called, with that child's
\* key, and nothing else; afterwards the stack has no children and
\* visible_child_key is None.
C9_ClearFiresOncePerChild ==
    (op.name = "clear") =>
        /\ raised = "none"
        /\ _key_to_child = <<>>
        /\ _visible_child_key = None
        /\ Len(events) = Len(op.m)
        /\ \A i \in 1..Len(op.m) :
               Cardinality(RemovedEvents(op.m[i][1], op.m[i][2])) = 1

C9_Witness ==
    /\ op.name = "clear"
    /\ Len(op.m) >= 2
    /\ op.vis # None
    /\ Len(events) = Len(op.m)

\* C10: get_child_from_key returns None for the key None, the child
\* registered under the key when there is one, and raises ValueError for any
\* other key; it changes neither the children nor the visible key and fires
\* no event.
C10_GetChildFromKey ==
    (op.name = "get_child_from_key") =>
        /\ _key_to_child = op.m
        /\ _visible_child_key = op.vis
        /\ events = <<>>
        /\ (op.key = None) => (raised = "none" /\ returned = None)
        /\ (op.key # None /\ HasKey(op.m, op.key)) =>
               /\ raised = "none"
               /\ \E i \in 1..Len(op.m) : op.m[i] = <<op.key, returned>>
        /\ (op.key # None /\ ~HasKey(op.m, op.key)) => raised = "ValueError"

C10_Witness ==
    /\ op.name = "get_child_from_key"
    /\ op.key # None
    /\ ~HasKey(op.m, op.key)
    /\ Len(op.m) >= 1
    /\ raised = "ValueError"

\* No child is registered under two keys (and no key twice).
OneKeyPerChild(m) ==
    \A i, j \in 1..Len(m) : (m[i][1] = m[j][1] \/ m[i][2] = m[j][2]) => i = j

AddRefused ==
    \/ op.key = None
    \/ HasKey(op.m, op.key)
    \/ HasChild(op.m, op.child)

\* C11: add_child raises ValueError, fires no event and leaves the dict and
\* the visible key as they were when the key is None, the key already
\* identifies a child, or the child is already in the stack; so no child is
\* ever registered under two keys.  Otherwise it registers the child and
\* fires on_child_added(key, child) exactly once, the child being in the dict
\* when the event fires.
C11_AddChild ==
    /\ OneKeyPerChild(_key_to_child)
    /\ (op.name = "add_child") =>
         IF AddRefused
         THEN /\ raised = "ValueError"
              /\ events = <<>>
              /\ _key_to_child = op.m
              /\ _visible_child_key = op.vis
         ELSE /\ raised = "none"
              /\ _key_to_child = Append(op.m, <<op.key, op.child>>)
              /\ _visible_child_key = op.vis
              /\ Len(events) = 1
              /\ events[1].name = "on_child_added"
              /\ events[1].key = op.key
              /\ events[1].child = op.child
              /\ \E i \in 1..Len(events[1].m) : events[1].m[i] = <<op.key, op.child>>

\* A refused add of a child that sits under another key, the visible one.
C11_Witness ==
    /\ op.name = "add_child"
    /\ raised = "ValueError"
    /\ op.key # None
    /\ ~HasKey(op.m, op.key)
    /\ HasChild(op.m, op.child)
    /\ Len(op.m) >= 2
    /\ op.vis # None

\* The key under which child sits in m.
KeyOf(m, child) == m[CHOOSE i \in 1..Len(m) : m[i][2] = child][1]

\* C12: after any sequence of add_child, remove_child, clear and
\* visible_child_key assignments, failed ones included, visible_child_key is
\* None or a key of the dict; a remove_child of the visible child resets it to
\* None and a remove_child of any other child leaves it as it was.
C12_VisibleKeyRegistered ==
    /\ _visible_child_key = None \/ HasKey(_key_to_child, _visible_child_key)
    /\ (op.name = "remove_child" /\ raised = "none") =>
         _visible_child_key =
             (IF op.vis = KeyOf(op.m, op.child) THEN None ELSE op.vis)

\* The visible child is removed while another child stays.
C12_Witness ==
    /\ op.name = "remove_child"
    /\ raised = "none"
    /\ op.vis # None
    /\ op.vis = KeyOf(op.m, op.child)
    /\ _visible_child_key = None
    /\ Len(_key_to_child) >= 1

\* C13: assigning visible_child_key a key that is not None and identifies no
\* child raises ValueError and leaves the visible key at its previous value;
\* assigning None or a registered key succeeds and stores it.
C13_SetVisibleChildKey ==
    (op.name = "visible_child_key") =>
        /\ _key_to_child = op.m
        /\ events = <<>>
        /\ IF op.key # None /\ ~HasKey(op.m, op.key)
           THEN raised = "ValueError" /\ _visible_child_key = op.vis
           ELSE raised = "none" /\ _visible_child_key = op.key

\* An unknown key is refused while another key is visible.
C13_Witness ==
    /\ op.name = "visible_child_key"
    /\ raised = "ValueError"
    /\ op.key # None
    /\ op.vis # None
    /\ _visible_child_key = op.vis

\* C14: remove_child of a child that is not in the stack raises ValueError,
\* fires no event and leaves the dict and the visible key as they were; a
\* successful remove_child fires on_child_removed(key, child) exactly once,
\* when the child has left the dict and the visible key, if it was the
\* child's, is already None.
C14_RemoveChild ==
    (op.name = "remove_child") =>
        IF ~HasChild(op.m, op.child)
        THEN /\ raised = "ValueError"
             /\ events = <<>>
             /\ _key_to_child = op.m
             /\ _visible_child_key = op.vis
        ELSE /\ raised = "none"
             /\ ~HasChild(_key_to_child, op.child)
             /\ Len(_key_to_child) = Len(op.m) - 1
             /\ \A i \in 1..Len(op.m) :
                    (op.m[i][2] # op.child) =>
                        \E j \in 1..Len(_key_to_child) : _key_to_child[j] = op.m[i]
             /\ Len(events) = 1
             /\ events[1].name = "on_child_removed"
             /\ events[1].key = KeyOf(op.m, op.child)
             /\ events[1].child = op.child
             /\ events[1].m = _key_to_child
             /\ events[1].vis = _visible_child_key
             /\ (op.vis = KeyOf(op.m, op.child)) => events[1].vis = None

\* The visible child is removed from a stack of several children.
C14_Witness ==
    /\ op.name = "remove_child"
    /\ raised = "none"
    /\ Len(op.m) >= 2
    /\ op.vis = KeyOf(op.m, op.child)
    /\ Len(events) = 1
    /\ events[1].vis = None

====
